---------------------------- MODULE Spec2Model ----------------------------
(***************************************************************************)
(* Model of the control-request parser of the usb2 crate: the decoding of  *)
(* bmRequestType, the decoding of wIndex as an endpoint or an interface,   *)
(* the Standard, CDC-ACM and HID request grammars, and the dispatcher      *)
(* Request::parse that tries them in order.                                *)
(*                                                                         *)
(* Every parser is a pure function of the five SETUP fields. The state is  *)
(* the SETUP packet handed to the parser, the entry point that has         *)
(* returned (pc) and the value it returned (ret).                          *)
(*   Result<T, ()>  is  [ok |-> TRUE, val |-> t]  or  [ok |-> FALSE]       *)
(*   Option<T>      is  [some |-> TRUE, v |-> t]  or  [some |-> FALSE]     *)
(*   an enum value  is  a record with a "variant" field, or a string for   *)
(*                      a field-less enum                                  *)
(***************************************************************************)
EXTENDS Integers, FiniteSets, Sequences, TLC

VARIABLES bmrequesttype, brequest, wvalue, windex, wlength, self, pc, ret

vars == <<bmrequesttype, brequest, wvalue, windex, wlength, self, pc, ret>>

(***************************************************************************)
(* Machine integers                                                        *)
(***************************************************************************)
U8 == 0 .. 255
U16 == 0 .. 65535

\* x >> n on an unsigned integer
Shr(x, n) == x \div (2 ^ n)

\* x as u8 (truncation of a u16)
AsU8(x) == x % 256

\* a & b on unsigned integers
RECURSIVE BitAnd(_, _)
BitAnd(a, b) ==
    IF a = 0 \/ b = 0 THEN 0
    ELSE (a % 2) * (b % 2) + 2 * BitAnd(a \div 2, b \div 2)

RECURSIVE BitOr(_, _)
BitOr(a, b) ==
    IF a = 0 THEN b
    ELSE IF b = 0 THEN a
    ELSE (IF a % 2 = 1 \/ b % 2 = 1 THEN 1 ELSE 0) + 2 * BitOr(a \div 2, b \div 2)

\* x << n on a u8 and on a u16
ShlU8(x, n) == (x * 2^n) % 256
ShlU16(x, n) == (x * 2^n) % 65536

\* !m on a u16
NotU16(m) == 65535 - m

Ok(v) == [ok |-> TRUE, val |-> v]
Err == [ok |-> FALSE]

Some(x) == [some |-> TRUE, v |-> x]
None == [some |-> FALSE]

\* core::num::NonZeroU8::new
NonZeroU8_new(b) == IF b = 0 THEN None ELSE Some(b)

(***************************************************************************)
(* bmrequesttype.rs: the repr! enums and bmRequestType::parse              *)
(***************************************************************************)
Direction_from(val) ==
    IF val = 0 THEN Some("HostToDevice")
    ELSE IF val = 1 THEN Some("DeviceToHost")
    ELSE None

Type_from(val) ==
    IF val = 0 THEN Some("Standard")
    ELSE IF val = 1 THEN Some("Class")
    ELSE IF val = 2 THEN Some("Vendor")
    ELSE None

Recipient_from(val) ==
    IF val = 0 THEN Some("Device")
    ELSE IF val = 1 THEN Some("Interface")
    ELSE IF val = 2 THEN Some("Endpoint")
    ELSE IF val = 3 THEN Some("Other")
    ELSE None

\* bmRequestType::parse with the recipient taken from bits 2-0 only
bmRequestType_parse_Mask3(b) ==
    LET direction == Direction_from(Shr(b, 7))
        ty == Type_from(BitAnd(Shr(b, 5), 3))
        recipient == Recipient_from(BitAnd(b, 7))
    IN  IF ~direction.some THEN Err
        ELSE IF ~ty.some THEN Err
        ELSE IF ~recipient.some THEN Err
        ELSE Ok([direction |-> direction.v, ty |-> ty.v, recipient |-> recipient.v])

\* bmRequestType::parse with the recipient read from bits 4-0
bmRequestType_parse_Mask5(b) ==
    LET direction == Direction_from(Shr(b, 7))
        ty == Type_from(BitAnd(Shr(b, 5), 3))
        recipient == Recipient_from(BitAnd(b, 31))
    IN  IF ~direction.some THEN Err
        ELSE IF ~ty.some THEN Err
        ELSE IF ~recipient.some THEN Err
        ELSE Ok([direction |-> direction.v, ty |-> ty.v, recipient |-> recipient.v])

bmRequestType_parse(b) ==
    LET direction == Direction_from(Shr(b, 7))
        ty == Type_from(BitAnd(Shr(b, 5), 3))
        recipient == Recipient_from(BitAnd(b, 15))
    IN  IF ~direction.some THEN Err
        ELSE IF ~ty.some THEN Err
        ELSE IF ~recipient.some THEN Err
        ELSE Ok([direction |-> direction.v, ty |-> ty.v, recipient |-> recipient.v])

(***************************************************************************)
(* lib.rs: decoding of wIndex                                              *)
(***************************************************************************)
\* windex2endpoint with the direction read from bit 7 alone, bits 6-4 masked away
windex2endpoint_MaskedDirection(wi) ==
    IF Shr(wi, 8) # 0 THEN Err
    ELSE LET w == AsU8(wi)
             direction == Shr(w, 7)
         IN  IF direction = 0 THEN Ok([direction |-> "Out", number |-> BitAnd(w, 15)])
             ELSE Ok([direction |-> "In", number |-> BitAnd(w, 15)])

windex2endpoint(wi) ==
    IF Shr(wi, 8) # 0 THEN Err
    ELSE LET w == AsU8(wi)
             direction == Shr(w, 4)
         IN  IF direction = 0 THEN Ok([direction |-> "Out", number |-> BitAnd(w, 15)])
             ELSE IF direction = 8 THEN Ok([direction |-> "In", number |-> BitAnd(w, 15)])
             ELSE Err

\* windex2interface with the upper byte dropped, not checked
windex2interface_Truncated(wi) == Ok(AsU8(wi))

windex2interface(wi) ==
    IF Shr(wi, 8) # 0 THEN Err ELSE Ok(AsU8(wi))

(***************************************************************************)
(* desc.rs: descriptor types; lib.rs: test selectors                       *)
(***************************************************************************)
desc_Type_from(val) ==
    IF val = 1 THEN Some("Device")
    ELSE IF val = 2 THEN Some("Configuration")
    ELSE IF val = 3 THEN Some("String")
    ELSE IF val = 4 THEN Some("Interface")
    ELSE IF val = 5 THEN Some("Endpoint")
    ELSE IF val = 6 THEN Some("DeviceQualifier")
    ELSE IF val = 7 THEN Some("OtherSpeedConfiguration")
    ELSE IF val = 8 THEN Some("InterfacePower")
    ELSE None

Test_from(val) ==
    IF val = 1 THEN Some("J")
    ELSE IF val = 2 THEN Some("K")
    ELSE IF val = 3 THEN Some("SE0_NAK")
    ELSE IF val = 4 THEN Some("Packet")
    ELSE IF val = 5 THEN Some("ForceEnable")
    ELSE None

(***************************************************************************)
(* brequest.rs and feature.rs: the standard request codes (USB2 table 9-4) *)
(* and feature selectors (USB2 table 9-6)                                  *)
(***************************************************************************)
GET_STATUS == 0
CLEAR_FEATURE == 1
SET_FEATURE == 3
SET_ADDRESS == 5
GET_DESCRIPTOR == 6
SET_DESCRIPTOR == 7
GET_CONFIGURATION == 8
SET_CONFIGURATION == 9
GET_INTERFACE == 10
SET_INTERFACE == 11
SYNCH_FRAME == 12

ENDPOINT_HALT == 0
DEVICE_REMOTE_WAKEUP == 1
TEST_MODE == 2

MAX_ADDRESS == 127

(***************************************************************************)
(* lib.rs: StandardRequest::parse2, one guard and one body per match arm   *)
(***************************************************************************)
ClearFeatureGuard(recipient, wl) == recipient # "Other" /\ wl = 0

\* the CLEAR_FEATURE arm with ENDPOINT_HALT accepted for every recipient
ClearFeatureArm_HaltAnyRecipient(recipient, wv, wi) ==
    IF wv = DEVICE_REMOTE_WAKEUP /\ recipient = "Device" /\ wi = 0
    THEN Ok([variant |-> "ClearFeature",
             feature |-> [variant |-> "DeviceRemoteWakeup"]])
    ELSE IF wv = ENDPOINT_HALT
    THEN LET ep == windex2endpoint(wi)
         IN  IF ~ep.ok THEN Err
             ELSE Ok([variant |-> "ClearFeature",
                      feature |-> [variant |-> "EndpointHalt", endpoint |-> ep.val]])
    ELSE Err

ClearFeatureArm(recipient, wv, wi) ==
    IF wv = DEVICE_REMOTE_WAKEUP /\ recipient = "Device" /\ wi = 0
    THEN Ok([variant |-> "ClearFeature",
             feature |-> [variant |-> "DeviceRemoteWakeup"]])
    ELSE IF wv = ENDPOINT_HALT /\ recipient = "Endpoint"
    THEN LET ep == windex2endpoint(wi)
         IN  IF ~ep.ok THEN Err
             ELSE Ok([variant |-> "ClearFeature",
                      feature |-> [variant |-> "EndpointHalt", endpoint |-> ep.val]])
    ELSE Err

GetConfigurationGuard(recipient, wv, wi, wl) ==
    recipient = "Device" /\ wv = 0 /\ wi = 0 /\ wl = 1

GetConfigurationArm == Ok([variant |-> "GetConfiguration"])

GetDescriptorGuard(recipient) == recipient = "Device"

\* the GET_DESCRIPTOR arm with the Configuration types accepted for any wIndex
GetDescriptorArm_ConfigurationAnyWIndex(wv, wi, wl) ==
    LET desc_ty == AsU8(Shr(wv, 8))
        desc_idx == AsU8(wv)
        ty == desc_Type_from(desc_ty)
    IN  IF ~ty.some THEN Err
        ELSE IF ty.v = "Device" /\ desc_idx = 0 /\ wi = 0
        THEN Ok([variant |-> "GetDescriptor",
                 descriptor |-> [variant |-> "Device"], length |-> wl])
        ELSE IF ty.v = "DeviceQualifier" /\ desc_idx = 0 /\ wi = 0
        THEN Ok([variant |-> "GetDescriptor",
                 descriptor |-> [variant |-> "DeviceQualifier"], length |-> wl])
        ELSE IF ty.v = "Configuration"
        THEN Ok([variant |-> "GetDescriptor",
                 descriptor |-> [variant |-> "Configuration", index |-> desc_idx],
                 length |-> wl])
        ELSE IF ty.v = "OtherSpeedConfiguration"
        THEN Ok([variant |-> "GetDescriptor",
                 descriptor |-> [variant |-> "OtherSpeedConfiguration", index |-> desc_idx],
                 length |-> wl])
        ELSE IF ty.v = "String"
        THEN Ok([variant |-> "GetDescriptor",
                 descriptor |-> [variant |-> "String", index |-> desc_idx, lang_id |-> wi],
                 length |-> wl])
        ELSE Err

\* the GET_DESCRIPTOR arm with the Device types accepted for any descriptor index
GetDescriptorArm_DeviceAnyIndex(wv, wi, wl) ==
    LET desc_ty == AsU8(Shr(wv, 8))
        desc_idx == AsU8(wv)
        ty == desc_Type_from(desc_ty)
    IN  IF ~ty.some THEN Err
        ELSE IF ty.v = "Device" /\ wi = 0
        THEN Ok([variant |-> "GetDescriptor",
                 descriptor |-> [variant |-> "Device"], length |-> wl])
        ELSE IF ty.v = "DeviceQualifier" /\ wi = 0
        THEN Ok([variant |-> "GetDescriptor",
                 descriptor |-> [variant |-> "DeviceQualifier"], length |-> wl])
        ELSE IF ty.v = "Configuration" /\ wi = 0
        THEN Ok([variant |-> "GetDescriptor",
                 descriptor |-> [variant |-> "Configuration", index |-> desc_idx],
                 length |-> wl])
        ELSE IF ty.v = "OtherSpeedConfiguration" /\ wi = 0
        THEN Ok([variant |-> "GetDescriptor",
                 descriptor |-> [variant |-> "OtherSpeedConfiguration", index |-> desc_idx],
                 length |-> wl])
        ELSE IF ty.v = "String"
        THEN Ok([variant |-> "GetDescriptor",
                 descriptor |-> [variant |-> "String", index |-> desc_idx, lang_id |-> wi],
                 length |-> wl])
        ELSE Err

GetDescriptorArm(wv, wi, wl) ==
    LET desc_ty == AsU8(Shr(wv, 8))
        desc_idx == AsU8(wv)
        ty == desc_Type_from(desc_ty)
    IN  IF ~ty.some THEN Err
        ELSE IF ty.v = "Device" /\ desc_idx = 0 /\ wi = 0
        THEN Ok([variant |-> "GetDescriptor",
                 descriptor |-> [variant |-> "Device"], length |-> wl])
        ELSE IF ty.v = "DeviceQualifier" /\ desc_idx = 0 /\ wi = 0
        THEN Ok([variant |-> "GetDescriptor",
                 descriptor |-> [variant |-> "DeviceQualifier"], length |-> wl])
        ELSE IF ty.v = "Configuration" /\ wi = 0
        THEN Ok([variant |-> "GetDescriptor",
                 descriptor |-> [variant |-> "Configuration", index |-> desc_idx],
                 length |-> wl])
        ELSE IF ty.v = "OtherSpeedConfiguration" /\ wi = 0
        THEN Ok([variant |-> "GetDescriptor",
                 descriptor |-> [variant |-> "OtherSpeedConfiguration", index |-> desc_idx],
                 length |-> wl])
        ELSE IF ty.v = "String"
        THEN Ok([variant |-> "GetDescriptor",
                 descriptor |-> [variant |-> "String", index |-> desc_idx, lang_id |-> wi],
                 length |-> wl])
        ELSE Err

GetInterfaceGuard(recipient, wv, wl) ==
    recipient = "Interface" /\ wv = 0 /\ wl = 1

GetInterfaceArm(wi) ==
    LET interface == windex2interface(wi)
    IN  IF ~interface.ok THEN Err
        ELSE Ok([variant |-> "GetInterface", interface |-> interface.val])

GetStatusGuard(wv, wl) == wv = 0 /\ wl = 2

\* the GET_STATUS arm with the Device recipient accepted for every wIndex
GetStatusArm_DeviceAnyWIndex(recipient, wi) ==
    IF recipient = "Device"
    THEN Ok([variant |-> "GetStatus", status |-> [variant |-> "Device"]])
    ELSE IF recipient = "Endpoint"
    THEN LET ep == windex2endpoint(wi)
         IN  IF ~ep.ok THEN Err
             ELSE Ok([variant |-> "GetStatus",
                      status |-> [variant |-> "Endpoint", endpoint |-> ep.val]])
    ELSE IF recipient = "Interface"
    THEN LET interface == windex2interface(wi)
         IN  IF ~interface.ok THEN Err
             ELSE Ok([variant |-> "GetStatus",
                      status |-> [variant |-> "Interface", interface |-> interface.val]])
    ELSE Err

GetStatusArm(recipient, wi) ==
    IF recipient = "Device" /\ wi = 0
    THEN Ok([variant |-> "GetStatus", status |-> [variant |-> "Device"]])
    ELSE IF recipient = "Endpoint"
    THEN LET ep == windex2endpoint(wi)
         IN  IF ~ep.ok THEN Err
             ELSE Ok([variant |-> "GetStatus",
                      status |-> [variant |-> "Endpoint", endpoint |-> ep.val]])
    ELSE IF recipient = "Interface"
    THEN LET interface == windex2interface(wi)
         IN  IF ~interface.ok THEN Err
             ELSE Ok([variant |-> "GetStatus",
                      status |-> [variant |-> "Interface", interface |-> interface.val]])
    ELSE Err

\* the SET_ADDRESS guard with wValue only required to fit in a byte
SetAddressGuard_FitsInByte(recipient, wv, wi, wl) ==
    recipient = "Device" /\ wi = 0 /\ wl = 0 /\ Shr(wv, 8) = 0

SetAddressGuard(recipient, wv, wi, wl) ==
    recipient = "Device" /\ wi = 0 /\ wl = 0 /\ wv <= MAX_ADDRESS

SetAddressArm(wv) ==
    Ok([variant |-> "SetAddress", address |-> NonZeroU8_new(AsU8(wv))])

\* the SET_CONFIGURATION guard without the check of the high byte of wValue
SetConfigurationGuard_NoHighByteCheck(recipient, wv, wi, wl) ==
    recipient = "Device" /\ wi = 0 /\ wl = 0

SetConfigurationGuard(recipient, wv, wi, wl) ==
    recipient = "Device" /\ wi = 0 /\ wl = 0 /\ Shr(wv, 8) = 0

SetConfigurationArm(wv) ==
    Ok([variant |-> "SetConfiguration", value |-> NonZeroU8_new(AsU8(wv))])

SetDescriptorGuard(recipient) == recipient = "Device"

\* the SET_DESCRIPTOR arm following every rule of the GET_DESCRIPTOR arm
SetDescriptorArm_AsGetDescriptor(wv, wi, wl) ==
    LET get == GetDescriptorArm(wv, wi, wl)
    IN  IF ~get.ok THEN Err
        ELSE Ok([variant |-> "SetDescriptor",
                 descriptor |-> get.val.descriptor, length |-> wl])

SetDescriptorArm(wv, wi, wl) ==
    LET desc_ty == AsU8(Shr(wv, 8))
        desc_idx == AsU8(wv)
        ty == desc_Type_from(desc_ty)
    IN  IF ~ty.some THEN Err
        ELSE IF ty.v = "Device" /\ desc_idx = 0 /\ wi = 0
        THEN Ok([variant |-> "SetDescriptor",
                 descriptor |-> [variant |-> "Device"], length |-> wl])
        ELSE IF ty.v = "Configuration" /\ wi = 0
        THEN Ok([variant |-> "SetDescriptor",
                 descriptor |-> [variant |-> "Configuration", index |-> desc_idx],
                 length |-> wl])
        ELSE IF ty.v = "String"
        THEN Ok([variant |-> "SetDescriptor",
                 descriptor |-> [variant |-> "String", index |-> desc_idx, lang_id |-> wi],
                 length |-> wl])
        ELSE Err

SetFeatureGuard(wl) == wl = 0

\* the SET_FEATURE arm with the low byte of wIndex not checked for TEST_MODE
SetFeatureArm_TestModeAnyLowByte(recipient, wv, wi) ==
    IF wv = DEVICE_REMOTE_WAKEUP /\ recipient = "Device" /\ wi = 0
    THEN Ok([variant |-> "SetFeature",
             feature |-> [variant |-> "DeviceRemoteWakeup"]])
    ELSE IF wv = TEST_MODE /\ recipient = "Device"
    THEN LET test == Test_from(AsU8(Shr(wi, 8)))
         IN  IF ~test.some THEN Err
             ELSE Ok([variant |-> "SetFeature",
                      feature |-> [variant |-> "TestMode", test |-> test.v]])
    ELSE IF wv = ENDPOINT_HALT /\ recipient = "Endpoint"
    THEN LET ep == windex2endpoint(wi)
         IN  IF ~ep.ok THEN Err
             ELSE Ok([variant |-> "SetFeature",
                      feature |-> [variant |-> "EndpointHalt", endpoint |-> ep.val]])
    ELSE Err

SetFeatureArm(recipient, wv, wi) ==
    IF wv = DEVICE_REMOTE_WAKEUP /\ recipient = "Device" /\ wi = 0
    THEN Ok([variant |-> "SetFeature",
             feature |-> [variant |-> "DeviceRemoteWakeup"]])
    ELSE IF wv = TEST_MODE /\ recipient = "Device" /\ AsU8(wi) = 0
    THEN LET test == Test_from(AsU8(Shr(wi, 8)))
         IN  IF ~test.some THEN Err
             ELSE Ok([variant |-> "SetFeature",
                      feature |-> [variant |-> "TestMode", test |-> test.v]])
    ELSE IF wv = ENDPOINT_HALT /\ recipient = "Endpoint"
    THEN LET ep == windex2endpoint(wi)
         IN  IF ~ep.ok THEN Err
             ELSE Ok([variant |-> "SetFeature",
                      feature |-> [variant |-> "EndpointHalt", endpoint |-> ep.val]])
    ELSE Err

SetInterfaceGuard(recipient, wl) == recipient = "Interface" /\ wl = 0

\* the SET_INTERFACE arm with wValue truncated to its low byte, not checked
SetInterfaceArm_AlternateTruncated(wv, wi) ==
    LET interface == windex2interface(wi)
    IN  IF ~interface.ok THEN Err
        ELSE Ok([variant |-> "SetInterface",
                 interface |-> interface.val, alternate |-> AsU8(wv)])

SetInterfaceArm(wv, wi) ==
    LET interface == windex2interface(wi)
        alternate == windex2interface(wv)
    IN  IF ~interface.ok THEN Err
        ELSE IF ~alternate.ok THEN Err
        ELSE Ok([variant |-> "SetInterface",
                 interface |-> interface.val, alternate |-> alternate.val])

SynchFrameGuard(recipient, wv, wl) ==
    recipient = "Endpoint" /\ wv = 0 /\ wl = 2

SynchFrameArm(wi) ==
    LET ep == windex2endpoint(wi)
    IN  IF ~ep.ok THEN Err
        ELSE Ok([variant |-> "SynchFrame", endpoint |-> ep.val])

\* the match with the GET_STATUS arm keyed on the request code alone
StandardRequest_parse2_GetStatusAnyDirection(rt, br, wv, wi, wl) ==
    LET direction == rt.direction
        recipient == rt.recipient
    IN  IF br = CLEAR_FEATURE /\ direction = "HostToDevice"
           /\ ClearFeatureGuard(recipient, wl)
        THEN ClearFeatureArm(recipient, wv, wi)
        ELSE IF br = GET_CONFIGURATION /\ direction = "DeviceToHost"
                /\ GetConfigurationGuard(recipient, wv, wi, wl)
        THEN GetConfigurationArm
        ELSE IF br = GET_DESCRIPTOR /\ direction = "DeviceToHost"
                /\ GetDescriptorGuard(recipient)
        THEN GetDescriptorArm(wv, wi, wl)
        ELSE IF br = GET_INTERFACE /\ direction = "DeviceToHost"
                /\ GetInterfaceGuard(recipient, wv, wl)
        THEN GetInterfaceArm(wi)
        ELSE IF br = GET_STATUS /\ GetStatusGuard(wv, wl)
        THEN GetStatusArm(recipient, wi)
        ELSE IF br = SET_ADDRESS /\ direction = "HostToDevice"
                /\ SetAddressGuard(recipient, wv, wi, wl)
        THEN SetAddressArm(wv)
        ELSE IF br = SET_CONFIGURATION /\ direction = "HostToDevice"
                /\ SetConfigurationGuard(recipient, wv, wi, wl)
        THEN SetConfigurationArm(wv)
        ELSE IF br = SET_DESCRIPTOR /\ direction = "HostToDevice"
                /\ SetDescriptorGuard(recipient)
        THEN SetDescriptorArm(wv, wi, wl)
        ELSE IF br = SET_FEATURE /\ direction = "HostToDevice"
                /\ SetFeatureGuard(wl)
        THEN SetFeatureArm(recipient, wv, wi)
        ELSE IF br = SET_INTERFACE /\ direction = "HostToDevice"
                /\ SetInterfaceGuard(recipient, wl)
        THEN SetInterfaceArm(wv, wi)
        ELSE IF br = SYNCH_FRAME /\ direction = "DeviceToHost"
                /\ SynchFrameGuard(recipient, wv, wl)
        THEN SynchFrameArm(wi)
        ELSE Err

\* The match on (brequest, direction): the first arm whose pattern and guard
\* hold is taken; an arm whose guard fails is skipped, down to `_ => Err(())`.
StandardRequest_parse2(rt, br, wv, wi, wl) ==
    LET direction == rt.direction
        recipient == rt.recipient
    IN  IF br = CLEAR_FEATURE /\ direction = "HostToDevice"
           /\ ClearFeatureGuard(recipient, wl)
        THEN ClearFeatureArm(recipient, wv, wi)
        ELSE IF br = GET_CONFIGURATION /\ direction = "DeviceToHost"
                /\ GetConfigurationGuard(recipient, wv, wi, wl)
        THEN GetConfigurationArm
        ELSE IF br = GET_DESCRIPTOR /\ direction = "DeviceToHost"
                /\ GetDescriptorGuard(recipient)
        THEN GetDescriptorArm(wv, wi, wl)
        ELSE IF br = GET_INTERFACE /\ direction = "DeviceToHost"
                /\ GetInterfaceGuard(recipient, wv, wl)
        THEN GetInterfaceArm(wi)
        ELSE IF br = GET_STATUS /\ direction = "DeviceToHost"
                /\ GetStatusGuard(wv, wl)
        THEN GetStatusArm(recipient, wi)
        ELSE IF br = SET_ADDRESS /\ direction = "HostToDevice"
                /\ SetAddressGuard(recipient, wv, wi, wl)
        THEN SetAddressArm(wv)
        ELSE IF br = SET_CONFIGURATION /\ direction = "HostToDevice"
                /\ SetConfigurationGuard(recipient, wv, wi, wl)
        THEN SetConfigurationArm(wv)
        ELSE IF br = SET_DESCRIPTOR /\ direction = "HostToDevice"
                /\ SetDescriptorGuard(recipient)
        THEN SetDescriptorArm(wv, wi, wl)
        ELSE IF br = SET_FEATURE /\ direction = "HostToDevice"
                /\ SetFeatureGuard(wl)
        THEN SetFeatureArm(recipient, wv, wi)
        ELSE IF br = SET_INTERFACE /\ direction = "HostToDevice"
                /\ SetInterfaceGuard(recipient, wl)
        THEN SetInterfaceArm(wv, wi)
        ELSE IF br = SYNCH_FRAME /\ direction = "DeviceToHost"
                /\ SynchFrameGuard(recipient, wv, wl)
        THEN SynchFrameArm(wi)
        ELSE Err

(***************************************************************************)
(* cdc/acm.rs: acm::Request::parse2                                        *)
(***************************************************************************)
SET_LINE_CODING == 32
GET_LINE_CODING == 33
SET_CONTROL_LINE_STATE == 34

\* acm::Request::parse2 with the reserved bits of wValue ignored, not checked
acm_Request_parse2_ReservedBitsIgnored(rt, br, wv, wi, wl) ==
    LET direction == rt.direction
        recipient == rt.recipient
        interface == windex2interface(wi)
    IN  IF br = SET_LINE_CODING /\ direction = "HostToDevice"
           /\ recipient = "Interface" /\ wv = 0 /\ wl = 7
        THEN IF ~interface.ok THEN Err
             ELSE Ok([interface |-> interface.val,
                      kind |-> [variant |-> "SetLineCoding"]])
        ELSE IF br = GET_LINE_CODING /\ direction = "DeviceToHost"
                /\ recipient = "Interface" /\ wv = 0 /\ wl = 7
        THEN IF ~interface.ok THEN Err
             ELSE Ok([interface |-> interface.val,
                      kind |-> [variant |-> "GetLineCoding"]])
        ELSE IF br = SET_CONTROL_LINE_STATE /\ direction = "HostToDevice"
                /\ recipient = "Interface" /\ wl = 0
        THEN IF ~interface.ok THEN Err
             ELSE Ok([interface |-> interface.val,
                      kind |-> [variant |-> "SetControlLineState",
                                dtr |-> BitAnd(wv, 1) # 0,
                                rts |-> BitAnd(wv, 2) # 0]])
        ELSE Err

acm_Request_parse2(rt, br, wv, wi, wl) ==
    LET direction == rt.direction
        recipient == rt.recipient
        interface == windex2interface(wi)
    IN  IF br = SET_LINE_CODING /\ direction = "HostToDevice"
           /\ recipient = "Interface" /\ wv = 0 /\ wl = 7
        THEN IF ~interface.ok THEN Err
             ELSE Ok([interface |-> interface.val,
                      kind |-> [variant |-> "SetLineCoding"]])
        ELSE IF br = GET_LINE_CODING /\ direction = "DeviceToHost"
                /\ recipient = "Interface" /\ wv = 0 /\ wl = 7
        THEN IF ~interface.ok THEN Err
             ELSE Ok([interface |-> interface.val,
                      kind |-> [variant |-> "GetLineCoding"]])
        ELSE IF br = SET_CONTROL_LINE_STATE /\ direction = "HostToDevice"
                /\ recipient = "Interface" /\ wl = 0
        THEN IF ~interface.ok THEN Err
             ELSE IF BitAnd(wv, NotU16(3)) # 0 THEN Err
             ELSE Ok([interface |-> interface.val,
                      kind |-> [variant |-> "SetControlLineState",
                                dtr |-> BitAnd(wv, 1) # 0,
                                rts |-> BitAnd(wv, 2) # 0]])
        ELSE Err

(***************************************************************************)
(* hid.rs: hid::Request::parse2                                            *)
(***************************************************************************)
DESC_TYPE_HID == 33
DESC_TYPE_REPORT == 34
\* SET_IDLE given the request code of the Standard grammar's SET_INTERFACE
HID_SET_IDLE_AsSetInterface == SET_INTERFACE
HID_SET_IDLE == 10
HID_GET_DESCRIPTOR == 6

\* hid::Request::parse2 with the HID descriptor type accepted as well as Report
hid_Request_parse2_HidDescriptorToo(rt, br, wv, wi, wl) ==
    LET direction == rt.direction
        recipient == rt.recipient
        interface == windex2interface(wi)
    IN  IF br = HID_SET_IDLE /\ recipient = "Interface"
           /\ direction = "HostToDevice" /\ wl = 0
        THEN LET duration == NonZeroU8_new(AsU8(Shr(wv, 8)))
                 report_id == NonZeroU8_new(AsU8(wv))
             IN  IF ~interface.ok THEN Err
                 ELSE Ok([interface |-> interface.val,
                          kind |-> [variant |-> "SetIdle",
                                    duration |-> duration,
                                    report_id |-> report_id]])
        ELSE IF br = HID_GET_DESCRIPTOR /\ recipient = "Interface"
                /\ direction = "DeviceToHost"
        THEN LET desc_ty == AsU8(Shr(wv, 8))
                 index == AsU8(wv)
                 length == wl
             IN  IF ~interface.ok THEN Err
                 ELSE IF desc_ty = DESC_TYPE_REPORT \/ desc_ty = DESC_TYPE_HID
                 THEN Ok([interface |-> interface.val,
                          kind |-> [variant |-> "GetDescriptor",
                                    length |-> length,
                                    descriptor |-> [variant |-> "Report",
                                                    index |-> index]]])
                 ELSE Err
        ELSE Err

\* hid::Request::parse2 with duration read from the low byte of wValue and
\* report_id from the high byte
hid_Request_parse2_FieldsSwapped(rt, br, wv, wi, wl) ==
    LET direction == rt.direction
        recipient == rt.recipient
        interface == windex2interface(wi)
    IN  IF br = HID_SET_IDLE /\ recipient = "Interface"
           /\ direction = "HostToDevice" /\ wl = 0
        THEN LET duration == NonZeroU8_new(AsU8(wv))
                 report_id == NonZeroU8_new(AsU8(Shr(wv, 8)))
             IN  IF ~interface.ok THEN Err
                 ELSE Ok([interface |-> interface.val,
                          kind |-> [variant |-> "SetIdle",
                                    duration |-> duration,
                                    report_id |-> report_id]])
        ELSE IF br = HID_GET_DESCRIPTOR /\ recipient = "Interface"
                /\ direction = "DeviceToHost"
        THEN LET desc_ty == AsU8(Shr(wv, 8))
                 index == AsU8(wv)
                 length == wl
             IN  IF ~interface.ok THEN Err
                 ELSE IF desc_ty = DESC_TYPE_REPORT
                 THEN Ok([interface |-> interface.val,
                          kind |-> [variant |-> "GetDescriptor",
                                    length |-> length,
                                    descriptor |-> [variant |-> "Report",
                                                    index |-> index]]])
                 ELSE Err
        ELSE Err

hid_Request_parse2(rt, br, wv, wi, wl) ==
    LET direction == rt.direction
        recipient == rt.recipient
        interface == windex2interface(wi)
    IN  IF br = HID_SET_IDLE /\ recipient = "Interface"
           /\ direction = "HostToDevice" /\ wl = 0
        THEN LET duration == NonZeroU8_new(AsU8(Shr(wv, 8)))
                 report_id == NonZeroU8_new(AsU8(wv))
             IN  IF ~interface.ok THEN Err
                 ELSE Ok([interface |-> interface.val,
                          kind |-> [variant |-> "SetIdle",
                                    duration |-> duration,
                                    report_id |-> report_id]])
        ELSE IF br = HID_GET_DESCRIPTOR /\ recipient = "Interface"
                /\ direction = "DeviceToHost"
        THEN LET desc_ty == AsU8(Shr(wv, 8))
                 index == AsU8(wv)
                 length == wl
             IN  IF ~interface.ok THEN Err
                 ELSE IF desc_ty = DESC_TYPE_REPORT
                 THEN Ok([interface |-> interface.val,
                          kind |-> [variant |-> "GetDescriptor",
                                    length |-> length,
                                    descriptor |-> [variant |-> "Report",
                                                    index |-> index]]])
                 ELSE Err
        ELSE Err

(***************************************************************************)
(* endpoint.rs: the endpoint descriptor and its wire representation        *)
(***************************************************************************)
\* enum Direction (of an Endpoint) as u8
EndpointDirection_as_u8(d) == IF d = "Out" THEN 0 ELSE 1

\* Endpoint::byte
Endpoint_byte(e) ==
    BitOr(BitAnd(e.number, 15), ShlU8(EndpointDirection_as_u8(e.direction), 7))

SynchronizationType_as_u8(s) ==
    CASE s = "NoSynchronization" -> 0 [] s = "Asynchronous" -> 1
      [] s = "Adaptive" -> 2 [] s = "Synchronous" -> 3

UsageType_as_u8(u) ==
    CASE u = "DataEndpoint" -> 0 [] u = "FeedbackEndpoint" -> 1
      [] u = "ImplicitFeedbackDataEndpoint" -> 2

Transactions_as_u16(t) == CASE t = "_1" -> 0 [] t = "_2" -> 1 [] t = "_3" -> 2

\* endpoint::Type::bmAttributes
endpoint_Type_bmAttributes(ty) ==
    IF ty.variant = "Bulk" THEN 2
    ELSE IF ty.variant = "Control" THEN 0
    ELSE IF ty.variant = "Interrupt" THEN 3
    ELSE BitOr(BitOr(1, ShlU8(SynchronizationType_as_u8(ty.synchronization_type), 2)),
               ShlU8(UsageType_as_u8(ty.usage_type), 4))

Descriptor_SIZE == 7
desc_Type_Endpoint == 5

\* Descriptor::bytes with max_packet_size not masked to its 11 bits
Descriptor_bytes_UnmaskedPacketSize(d) ==
    LET word0 == d.max_packet_size
        word == IF d.ty.variant \in {"Interrupt", "Isochronous"}
                THEN BitOr(word0,
                           ShlU16(Transactions_as_u16(d.ty.transactions_per_microframe), 11))
                ELSE word0
    IN  <<Descriptor_SIZE, desc_Type_Endpoint, Endpoint_byte(d.bEndpointAddress),
          endpoint_Type_bmAttributes(d.ty), AsU8(word), AsU8(Shr(word, 8)), d.bInterval>>

\* Descriptor::bytes
Descriptor_bytes(d) ==
    LET word0 == BitAnd(d.max_packet_size, ShlU16(1, 11) - 1)
        word == IF d.ty.variant \in {"Interrupt", "Isochronous"}
                THEN BitOr(word0,
                           ShlU16(Transactions_as_u16(d.ty.transactions_per_microframe), 11))
                ELSE word0
    IN  <<Descriptor_SIZE, desc_Type_Endpoint, Endpoint_byte(d.bEndpointAddress),
          endpoint_Type_bmAttributes(d.ty), AsU8(word), AsU8(Shr(word, 8)), d.bInterval>>

(***************************************************************************)
(* lib.rs: Request::parse, the dispatcher                                  *)
(***************************************************************************)
\* Result::map(Request::X)
MapRequest(r, variant) ==
    IF r.ok THEN Ok([variant |-> variant, request |-> r.val]) ELSE Err

\* Result::or_else
OrElse(r, alt) == IF r.ok THEN r ELSE alt

\* Request::parse with the ACM grammar also tried for a Standard-typed packet
Request_parse_StandardTriesAcm(b, br, wv, wi, wl) ==
    LET rt == bmRequestType_parse(b)
    IN  IF ~rt.ok THEN Err
        ELSE IF rt.val.ty = "Standard"
        THEN OrElse(MapRequest(StandardRequest_parse2(rt.val, br, wv, wi, wl), "Standard"),
                    OrElse(MapRequest(acm_Request_parse2(rt.val, br, wv, wi, wl), "Acm"),
                           MapRequest(hid_Request_parse2(rt.val, br, wv, wi, wl), "Hid")))
        ELSE IF rt.val.ty = "Class"
        THEN OrElse(MapRequest(acm_Request_parse2(rt.val, br, wv, wi, wl), "Acm"),
                    MapRequest(hid_Request_parse2(rt.val, br, wv, wi, wl), "Hid"))
        ELSE Err

\* Request::parse with the Standard grammar as a last resort for a Class-typed packet
Request_parse_ClassTriesStandard(b, br, wv, wi, wl) ==
    LET rt == bmRequestType_parse(b)
    IN  IF ~rt.ok THEN Err
        ELSE IF rt.val.ty = "Standard"
        THEN OrElse(MapRequest(StandardRequest_parse2(rt.val, br, wv, wi, wl), "Standard"),
                    MapRequest(hid_Request_parse2(rt.val, br, wv, wi, wl), "Hid"))
        ELSE IF rt.val.ty = "Class"
        THEN OrElse(MapRequest(acm_Request_parse2(rt.val, br, wv, wi, wl), "Acm"),
                    OrElse(MapRequest(hid_Request_parse2(rt.val, br, wv, wi, wl), "Hid"),
                           MapRequest(StandardRequest_parse2(rt.val, br, wv, wi, wl),
                                      "Standard")))
        ELSE Err

\* Request::parse with only the Standard type singled out: a Vendor-typed
\* packet goes through the class grammars
Request_parse_VendorAsClass(b, br, wv, wi, wl) ==
    LET rt == bmRequestType_parse(b)
    IN  IF ~rt.ok THEN Err
        ELSE IF rt.val.ty = "Standard"
        THEN OrElse(MapRequest(StandardRequest_parse2(rt.val, br, wv, wi, wl), "Standard"),
                    MapRequest(hid_Request_parse2(rt.val, br, wv, wi, wl), "Hid"))
        ELSE OrElse(MapRequest(acm_Request_parse2(rt.val, br, wv, wi, wl), "Acm"),
                    MapRequest(hid_Request_parse2(rt.val, br, wv, wi, wl), "Hid"))

Request_parse(b, br, wv, wi, wl) ==
    LET rt == bmRequestType_parse(b)
    IN  IF ~rt.ok THEN Err
        ELSE IF rt.val.ty = "Standard"
        THEN OrElse(MapRequest(StandardRequest_parse2(rt.val, br, wv, wi, wl), "Standard"),
                    MapRequest(hid_Request_parse2(rt.val, br, wv, wi, wl), "Hid"))
        ELSE IF rt.val.ty = "Class"
        THEN OrElse(MapRequest(acm_Request_parse2(rt.val, br, wv, wi, wl), "Acm"),
                    MapRequest(hid_Request_parse2(rt.val, br, wv, wi, wl), "Hid"))
        ELSE Err

(***************************************************************************)
(* lib.rs, cdc/acm.rs: the public per-grammar entry points                 *)
(***************************************************************************)
\* StandardRequest::parse without the check of the request type
StandardRequest_parse_AnyType(b, br, wv, wi, wl) ==
    LET rt == bmRequestType_parse(b)
    IN  IF ~rt.ok THEN Err
        ELSE StandardRequest_parse2(rt.val, br, wv, wi, wl)

StandardRequest_parse(b, br, wv, wi, wl) ==
    LET rt == bmRequestType_parse(b)
    IN  IF ~rt.ok THEN Err
        ELSE IF rt.val.ty # "Standard" THEN Err
        ELSE StandardRequest_parse2(rt.val, br, wv, wi, wl)

acm_Request_parse(b, br, wv, wi, wl) ==
    LET rt == bmRequestType_parse(b)
    IN  IF ~rt.ok THEN Err
        ELSE IF rt.val.ty # "Class" THEN Err
        ELSE acm_Request_parse2(rt.val, br, wv, wi, wl)

(***************************************************************************)
(* The SETUP packets the parsers are run on.  The byte and the 16-bit      *)
(* index are enumerated in full where a parser reads nothing else; the     *)
(* five-field parsers run on grids that hold every value a rule compares   *)
(* against, its neighbours, and values no rule accepts.                    *)
(***************************************************************************)
MaxRecipientCode == 4
MaxBRequest == 12
MaxSmall == 3
MaxInterface == 2
MaxLen == 2
MaxDescType == 9
MaxDescIndex == 1
MaxWideValue == 300
MaxLineState == 5
MaxTestSelector == 6
MaxEndpointNumber == 17

\* every direction, every type code, bit 4 clear and set, recipient codes 0..MaxRecipientCode
BmBytes == {b \in U8 : b % 16 <= MaxRecipientCode}

BRequests ==
    (0 .. MaxBRequest) \cup {SET_LINE_CODING, GET_LINE_CODING, SET_CONTROL_LINE_STATE}

\* 16 = address 16; 256, 512, 768 = descriptor types 1..3, index 0;
\* 8448, 8704, 8705 = HID and Report descriptor types
WValues == (0 .. MaxSmall) \cup {16, 256, 512, 768, 8448, 8704, 8705}

\* 16 and 128 = endpoint bytes 0x10 and 0x80; 256 = upper byte set; 1033 = a language id
WIndexes == (0 .. MaxInterface) \cup {16, 128, 256, 1033}

WLengths == (0 .. MaxLen) \cup {7, 9, 64}

\* every descriptor type code up to MaxDescType, the HID codes and 255,
\* each with descriptor indices 0..MaxDescIndex and 255
DescWValues ==
    {h * 256 + l : h \in (0 .. MaxDescType) \cup {DESC_TYPE_HID, DESC_TYPE_REPORT, 255},
                   l \in (0 .. MaxDescIndex) \cup {255}}

DescWLengths == (0 .. MaxLen) \cup {18, 65535}

\* every value up to MaxWideValue (across 127/128 and 255/256) and the top of the range
WideWValues == (0 .. MaxWideValue) \cup {32768, 65535}

\* every wValue up to MaxSmall in either byte, and 255 in either byte
ByteEdgeWValues ==
    {h * 256 + l : h \in (0 .. MaxSmall) \cup {255}, l \in (0 .. MaxSmall) \cup {255}}

\* 255 and 256 = the largest interface number and the first upper-byte bit
InterfaceWIndexes == (0 .. MaxInterface) \cup {255, 256, 1033}

\* the four line states, the first reserved bits, and reserved bits of the upper byte
LineStateWValues == (0 .. MaxLineState) \cup {256, 258, 32771, 65535}

\* wIndex as a test selector over an endpoint address: every high byte up to
\* MaxTestSelector over the edges of both nibbles of the low byte
FeatureWIndexes ==
    {h * 256 + l : h \in 0 .. MaxTestSelector,
                   l \in {0, 1, 15, 16, 128, 129, 143, 144, 255}}

\* addresses across 127/128, bytes across 255/256, descriptor types 1, 2, 3,
\* 6, 7 and the Report type
AllWValues ==
    (0 .. MaxSmall) \cup {MAX_ADDRESS, MAX_ADDRESS + 1, 255, 256, 257, 512, 768,
                          1536, 1792, 8704}

\* endpoint addresses and interface numbers under upper bytes 0, 1 and 6
AllWIndexes == {h * 256 + l : h \in {0, 1, 6}, l \in {0, 1, 16, 128, 143, 255}}

\* the values of the enums of endpoint.rs
TransactionsValues == {"_1", "_2", "_3"}
EndpointTypes ==
    {[variant |-> "Bulk"], [variant |-> "Control"]}
    \cup {[variant |-> "Interrupt", transactions_per_microframe |-> t] :
            t \in TransactionsValues}
    \cup {[variant |-> "Isochronous", synchronization_type |-> s, usage_type |-> u,
           transactions_per_microframe |-> t] :
            s \in {"NoSynchronization", "Asynchronous", "Adaptive", "Synchronous"},
            u \in {"DataEndpoint", "FeedbackEndpoint", "ImplicitFeedbackDataEndpoint"},
            t \in TransactionsValues}

\* endpoint numbers past the four bits of the address byte, packet sizes across
\* the eleven bits of the size field, and the edges of bInterval
Descriptors ==
    [bEndpointAddress : [direction : {"Out", "In"},
                         number : (0 .. MaxEndpointNumber) \cup {255}],
     ty : EndpointTypes,
     max_packet_size : {0, 1, 64, 512, 1023, 1024, 2047, 2048, 2049, 65535},
     bInterval : {0, 1, 255}]

\* the descriptor at hand while a request is parsed
ControlEndpoint0 ==
    [bEndpointAddress |-> [direction |-> "Out", number |-> 0],
     ty |-> [variant |-> "Control"], max_packet_size |-> 64, bInterval |-> 0]

TypeOK ==
    /\ bmrequesttype \in U8
    /\ brequest \in U8
    /\ wvalue \in U16
    /\ windex \in U16
    /\ wlength \in U16
    /\ self.max_packet_size \in U16
    /\ self.bInterval \in U8
    /\ self.bEndpointAddress.number \in U8
    /\ pc \in {"ready", "Request::parse", "StandardRequest::parse",
               "acm::Request::parse", "bmRequestType::parse", "windex2endpoint",
               "Descriptor::bytes"}
    /\ IF pc = "Descriptor::bytes"
       THEN ret \in [1 .. Descriptor_SIZE -> U8]
       ELSE ret.ok \in BOOLEAN

InitWith(BM, BR, WV, WI, WL) ==
    /\ bmrequesttype \in BM
    /\ brequest \in BR
    /\ wvalue \in WV
    /\ windex \in WI
    /\ wlength \in WL
    /\ self = ControlEndpoint0
    /\ pc = "ready"
    /\ ret = Err

Init == InitWith(BmBytes, BRequests, WValues, WIndexes, WLengths)

InitBm == InitWith(U8, {0}, {0}, {0}, {0})

InitEp == InitWith({0}, {0}, {0}, U16, {0})

InitDesc ==
    InitWith(BmBytes, {GET_DESCRIPTOR, SET_DESCRIPTOR}, DescWValues, WIndexes, DescWLengths)

InitAddr ==
    InitWith(BmBytes, {SET_ADDRESS, SET_CONFIGURATION}, WideWValues,
             {0, 1, 256, 1033}, 0 .. MaxLen)

InitIface ==
    InitWith(BmBytes, {GET_INTERFACE, SET_INTERFACE}, ByteEdgeWValues,
             InterfaceWIndexes, 0 .. MaxLen)

InitFeature ==
    InitWith(BmBytes, GET_STATUS .. SET_FEATURE, 0 .. MaxSmall, FeatureWIndexes,
             0 .. MaxLen)

InitAll == InitWith(BmBytes, BRequests, AllWValues, AllWIndexes, (0 .. MaxLen) \cup {7})

InitDescriptor ==
    /\ bmrequesttype = 0
    /\ brequest = 0
    /\ wvalue = 0
    /\ windex = 0
    /\ wlength = 0
    /\ self \in Descriptors
    /\ pc = "ready"
    /\ ret = Err

\* 256 = a Device descriptor, 8704 = a Report descriptor
InitEntry ==
    InitWith(BmBytes, BRequests, (0 .. MaxSmall) \cup {256, 8704}, InterfaceWIndexes,
             (0 .. MaxLen) \cup {7})

InitAcm ==
    InitWith(BmBytes, {SET_LINE_CODING, GET_LINE_CODING, SET_CONTROL_LINE_STATE},
             LineStateWValues, InterfaceWIndexes, (0 .. MaxLen) \cup {7})

(***************************************************************************)
(* One action per entry point: the call returns its value                  *)
(***************************************************************************)
Inputs == <<bmrequesttype, brequest, wvalue, windex, wlength>>

RequestParse ==
    /\ pc = "ready"
    /\ ret' = Request_parse(bmrequesttype, brequest, wvalue, windex, wlength)
    /\ pc' = "Request::parse"
    /\ UNCHANGED <<Inputs, self>>

StandardRequestParse ==
    /\ pc = "ready"
    /\ ret' = StandardRequest_parse(bmrequesttype, brequest, wvalue, windex, wlength)
    /\ pc' = "StandardRequest::parse"
    /\ UNCHANGED <<Inputs, self>>

AcmRequestParse ==
    /\ pc = "ready"
    /\ ret' = acm_Request_parse(bmrequesttype, brequest, wvalue, windex, wlength)
    /\ pc' = "acm::Request::parse"
    /\ UNCHANGED <<Inputs, self>>

DescriptorBytes ==
    /\ pc = "ready"
    /\ ret' = Descriptor_bytes(self)
    /\ pc' = "Descriptor::bytes"
    /\ UNCHANGED <<Inputs, self>>

BmRequestTypeParse ==
    /\ pc = "ready"
    /\ ret' = bmRequestType_parse(bmrequesttype)
    /\ pc' = "bmRequestType::parse"
    /\ UNCHANGED <<Inputs, self>>

Windex2Endpoint ==
    /\ pc = "ready"
    /\ ret' = windex2endpoint(windex)
    /\ pc' = "windex2endpoint"
    /\ UNCHANGED <<Inputs, self>>

Next == RequestParse

NextStd == RequestParse \/ StandardRequestParse

NextAcm == RequestParse \/ AcmRequestParse

NextDescriptor == DescriptorBytes

NextEntry == RequestParse \/ StandardRequestParse \/ AcmRequestParse

NextBm == BmRequestTypeParse

NextEp == Windex2Endpoint

\* Request::parse on the dispatch grid
Spec == Init /\ [][Next]_vars

\* bmRequestType::parse on every byte
SpecBm == InitBm /\ [][NextBm]_vars

\* windex2endpoint on every 16-bit index
SpecEp == InitEp /\ [][NextEp]_vars

\* Request::parse and StandardRequest::parse on GET_DESCRIPTOR / SET_DESCRIPTOR packets
SpecDesc == InitDesc /\ [][NextStd]_vars

\* Request::parse and StandardRequest::parse on SET_ADDRESS / SET_CONFIGURATION packets
SpecAddr == InitAddr /\ [][NextStd]_vars

\* request codes 10 and 11 (GET_INTERFACE = HID SET_IDLE, SET_INTERFACE) with
\* every byte pattern of wValue
SpecIface == InitIface /\ [][NextStd]_vars

\* GET_STATUS, CLEAR_FEATURE and SET_FEATURE over test selectors and endpoint
\* addresses in wIndex
SpecFeature == InitFeature /\ [][NextStd]_vars

\* every request code of the three grammars over the edges of every field
SpecAll == InitAll /\ [][NextStd]_vars

\* Descriptor::bytes on endpoint descriptors
SpecDescriptor == InitDescriptor /\ [][NextDescriptor]_vars

\* the dispatcher and the two public per-grammar entry points on the same packets
SpecEntry == InitEntry /\ [][NextEntry]_vars

\* Request::parse and acm::Request::parse on the three ACM requests
SpecAcm == InitAcm /\ [][NextAcm]_vars

(***************************************************************************)
(* Vocabulary of the properties: the fields of the packet read bit by bit  *)
(***************************************************************************)
DirectionBit(b) == b \div 128
KindBits(b) == (b \div 32) % 4
RecipientBits(b) == b % 16
HighByte(w) == w \div 256
LowByte(w) == w % 256

\* the request-type byte decodes
Decodes(b) == KindBits(b) \in {0, 1, 2} /\ RecipientBits(b) \in {0, 1, 2, 3}

DeclaredStandard(b) == Decodes(b) /\ KindBits(b) = 0
DeclaredClass(b) == Decodes(b) /\ KindBits(b) = 1
DeclaredVendor(b) == Decodes(b) /\ KindBits(b) = 2

\* the three grammars on the decoded fields of the current packet
Decoded == bmRequestType_parse(bmrequesttype).val
StdGrammar == StandardRequest_parse2(Decoded, brequest, wvalue, windex, wlength)
AcmGrammar == acm_Request_parse2(Decoded, brequest, wvalue, windex, wlength)
HidGrammar == hid_Request_parse2(Decoded, brequest, wvalue, windex, wlength)

Standard(r) == [variant |-> "Standard", request |-> r]
Acm(r) == [variant |-> "Acm", request |-> r]
Hid(r) == [variant |-> "Hid", request |-> r]

(***************************************************************************)
(* C1 as stated: for a Standard-typed packet Request::parse returns the    *)
(* Standard grammar's result when it accepts, otherwise the result of the  *)
(* first of the ACM grammar and the HID grammar that accepts, and rejects  *)
(* only if all three reject.                                               *)
(***************************************************************************)
C1_Original ==
    (pc = "Request::parse" /\ DeclaredStandard(bmrequesttype)) =>
        ret = IF StdGrammar.ok THEN Ok(Standard(StdGrammar.val))
              ELSE IF AcmGrammar.ok THEN Ok(Acm(AcmGrammar.val))
              ELSE IF HidGrammar.ok THEN Ok(Hid(HidGrammar.val))
              ELSE Err

(***************************************************************************)
(* C1 amended: for a Standard-typed packet Request::parse returns the      *)
(* Standard grammar's result when it accepts; when it rejects, only the    *)
(* HID grammar is tried (the ACM grammar is not) and its result is         *)
(* returned when it accepts; the packet is rejected exactly when the       *)
(* Standard and the HID grammar both reject, whatever the ACM grammar      *)
(* would say.                                                              *)
(***************************************************************************)
C1_StandardThenHid ==
    (pc = "Request::parse" /\ DeclaredStandard(bmrequesttype)) =>
        /\ StdGrammar.ok => ret = Ok(Standard(StdGrammar.val))
        /\ (~StdGrammar.ok /\ HidGrammar.ok) => ret = Ok(Hid(HidGrammar.val))
        /\ (~StdGrammar.ok /\ ~HidGrammar.ok) => ret = Err
        /\ ret.ok => ret.val.variant \in {"Standard", "Hid"}

\* a Standard-typed packet the Standard grammar rejects and the HID grammar accepts
C1_Witness ==
    /\ pc = "Request::parse"
    /\ DeclaredStandard(bmrequesttype)
    /\ ~StdGrammar.ok
    /\ HidGrammar.ok
    /\ ret.ok
    /\ ret.val.variant = "Hid"

(***************************************************************************)
(* C2: for a Class-typed packet Request::parse returns Acm(r) when the ACM *)
(* grammar accepts with r, otherwise Hid(r) when the HID grammar accepts   *)
(* with r, otherwise rejects; it never returns a Standard variant, even    *)
(* when the Standard grammar would accept the same fields.                 *)
(***************************************************************************)
C2_ClassAcmThenHid ==
    (pc = "Request::parse" /\ DeclaredClass(bmrequesttype)) =>
        /\ AcmGrammar.ok => ret = Ok(Acm(AcmGrammar.val))
        /\ (~AcmGrammar.ok /\ HidGrammar.ok) => ret = Ok(Hid(HidGrammar.val))
        /\ (~AcmGrammar.ok /\ ~HidGrammar.ok) => ret = Err
        /\ ret.ok => ret.val.variant # "Standard"

\* a Class-typed packet rejected although the Standard grammar would accept its fields
C2_Witness ==
    /\ pc = "Request::parse"
    /\ DeclaredClass(bmrequesttype)
    /\ StdGrammar.ok
    /\ ~AcmGrammar.ok
    /\ ~HidGrammar.ok
    /\ ret = Err

(***************************************************************************)
(* C3: Request::parse rejects every packet whose request-type byte does    *)
(* not decode (type bits 6-5 = 3 or recipient bits 3-0 above 3) and every  *)
(* packet of type Vendor, whatever the other four fields are.              *)
(***************************************************************************)
C3_UndecodableAndVendorRejected ==
    (pc = "Request::parse"
        /\ (KindBits(bmrequesttype) = 3
            \/ RecipientBits(bmrequesttype) > 3
            \/ DeclaredVendor(bmrequesttype))) =>
        ret = Err

\* a Vendor-typed packet whose other fields a class grammar accepts, rejected
C3_Witness ==
    /\ pc = "Request::parse"
    /\ DeclaredVendor(bmrequesttype)
    /\ (AcmGrammar.ok \/ HidGrammar.ok)
    /\ ret = Err

(***************************************************************************)
(* C4: bmRequestType::parse(b) succeeds exactly when bits 6-5 of b are in  *)
(* {0,1,2} and bits 3-0 are in {0,1,2,3}; then direction is DeviceToHost   *)
(* exactly when bit 7 is 1, the type is Standard/Class/Vendor for bits 6-5 *)
(* = 0/1/2 and the recipient is Device/Interface/Endpoint/Other for bits   *)
(* 3-0 = 0/1/2/3.                                                          *)
(***************************************************************************)
C4_RequestTypeByte ==
    pc = "bmRequestType::parse" =>
        LET b == bmrequesttype
        IN  /\ ret.ok <=> (KindBits(b) \in {0, 1, 2} /\ RecipientBits(b) \in {0, 1, 2, 3})
            /\ ret.ok =>
                /\ ret.val.direction =
                      (IF DirectionBit(b) = 1 THEN "DeviceToHost" ELSE "HostToDevice")
                /\ ret.val.ty = <<"Standard", "Class", "Vendor">>[KindBits(b) + 1]
                /\ ret.val.recipient =
                      <<"Device", "Interface", "Endpoint", "Other">>[RecipientBits(b) + 1]

\* 0b1010_0010 decoded as DeviceToHost, Class, Endpoint
C4_Witness ==
    /\ pc = "bmRequestType::parse"
    /\ bmrequesttype = 162
    /\ ret = Ok([direction |-> "DeviceToHost", ty |-> "Class", recipient |-> "Endpoint"])

(***************************************************************************)
(* C5: windex2endpoint(wIndex) succeeds exactly when the upper byte of     *)
(* wIndex is 0 and bits 7-4 of the lower byte are 0b0000 or 0b1000; then   *)
(* the direction is Out for 0b0000 and In for 0b1000 and the number is     *)
(* bits 3-0 (0x0080 gives In/0, 0x0000 gives Out/0, 0x0010 and 0x0090 are  *)
(* rejected).                                                              *)
(***************************************************************************)
C5_EndpointIndex ==
    pc = "windex2endpoint" =>
        LET nibble == (windex % 256) \div 16
        IN  /\ ret.ok <=> (HighByte(windex) = 0 /\ nibble \in {0, 8})
            /\ ret.ok =>
                /\ ret.val.direction = (IF nibble = 0 THEN "Out" ELSE "In")
                /\ ret.val.number = windex % 16
            /\ windex = 128 => ret = Ok([direction |-> "In", number |-> 0])
            /\ windex = 0 => ret = Ok([direction |-> "Out", number |-> 0])
            /\ windex \in {16, 144} => ret = Err

\* 0x008F decoded as In, endpoint 15
C5_Witness ==
    /\ pc = "windex2endpoint"
    /\ windex = 143
    /\ ret = Ok([direction |-> "In", number |-> 15])

\* the value an entry point returns for a Standard request r: Request::parse
\* wraps it in Request::Standard, StandardRequest::parse returns it as it is
FromStandard(r) == IF pc = "Request::parse" THEN Standard(r) ELSE r

StandardEntry == pc \in {"Request::parse", "StandardRequest::parse"}

(***************************************************************************)
(* C6 as stated: Request::parse(0b0000_0000, 0x06, 0x0200, 0, 9) returns   *)
(* Ok(Standard(GetDescriptor { Configuration { index: 0 }, length: 9 })),  *)
(* and the same call with wIndex = 1033 is rejected.                       *)
(***************************************************************************)
C6_Original ==
    (pc = "Request::parse" /\ bmrequesttype = 0 /\ brequest = 6
        /\ wvalue = 512 /\ wlength = 9) =>
        /\ windex = 0 =>
              ret = Ok(Standard([variant |-> "GetDescriptor",
                                 descriptor |-> [variant |-> "Configuration", index |-> 0],
                                 length |-> 9]))
        /\ windex = 1033 => ret = Err

(***************************************************************************)
(* C6 amended: Request::parse(0b1000_0000, 0x06, 0x0200, 0, 9), the        *)
(* request-type byte with the DeviceToHost direction bit set, returns      *)
(* Ok(Standard(GetDescriptor { Configuration { index: 0 }, length: 9 })),  *)
(* and the same call with wIndex = 1033 is rejected.                       *)
(***************************************************************************)
C6_GetConfigurationDescriptor ==
    (pc = "Request::parse" /\ bmrequesttype = 128 /\ brequest = 6
        /\ wvalue = 512 /\ wlength = 9) =>
        /\ windex = 0 =>
              ret = Ok(Standard([variant |-> "GetDescriptor",
                                 descriptor |-> [variant |-> "Configuration", index |-> 0],
                                 length |-> 9]))
        /\ windex = 1033 => ret = Err

\* the call of the amended claim has returned the Configuration descriptor request
C6_Witness ==
    /\ pc = "Request::parse"
    /\ Inputs = <<128, 6, 512, 0, 9>>
    /\ ret.ok
    /\ ret.val.request.descriptor = [variant |-> "Configuration", index |-> 0]

(***************************************************************************)
(* C7: for a Standard-typed, DeviceToHost, Device-recipient GET_DESCRIPTOR *)
(* (0x06) packet, with type the high byte and index the low byte of        *)
(* wValue, the Standard grammar accepts exactly when type is Device (1) or *)
(* DeviceQualifier (6) with index = 0 and wIndex = 0, or type is           *)
(* Configuration (2) or OtherSpeedConfiguration (7) with wIndex = 0, or    *)
(* type is String (3), whose lang_id is wIndex; every other type code is   *)
(* rejected; an accepted request carries length = wLength unchanged.       *)
(***************************************************************************)
C7_GetDescriptorRules ==
    (StandardEntry /\ DeclaredStandard(bmrequesttype)
        /\ DirectionBit(bmrequesttype) = 1 /\ RecipientBits(bmrequesttype) = 0
        /\ brequest = 6) =>
        LET type == HighByte(wvalue)
            index == LowByte(wvalue)
            accepted == \/ type \in {1, 6} /\ index = 0 /\ windex = 0
                        \/ type \in {2, 7} /\ windex = 0
                        \/ type = 3
            descriptor ==
                IF type = 1 THEN [variant |-> "Device"]
                ELSE IF type = 6 THEN [variant |-> "DeviceQualifier"]
                ELSE IF type = 2 THEN [variant |-> "Configuration", index |-> index]
                ELSE IF type = 7
                THEN [variant |-> "OtherSpeedConfiguration", index |-> index]
                ELSE [variant |-> "String", index |-> index, lang_id |-> windex]
        IN  /\ ret.ok <=> accepted
            /\ ret.ok => ret.val = FromStandard([variant |-> "GetDescriptor",
                                                 descriptor |-> descriptor,
                                                 length |-> wlength])

\* a String descriptor request with a language id and the largest length
C7_Witness ==
    /\ pc = "StandardRequest::parse"
    /\ Inputs = <<128, 6, 769, 1033, 65535>>
    /\ ret = Ok([variant |-> "GetDescriptor",
                 descriptor |-> [variant |-> "String", index |-> 1, lang_id |-> 1033],
                 length |-> 65535])

(***************************************************************************)
(* C8: a Standard-typed SET_ADDRESS (0x05) packet is accepted exactly when *)
(* the direction is HostToDevice, the recipient is Device, wIndex = 0,     *)
(* wLength = 0 and wValue <= 127; the result is SetAddress with address    *)
(* None exactly when wValue = 0 and Some(wValue) otherwise, so every       *)
(* address is in 1..127.                                                   *)
(***************************************************************************)
C8_SetAddress ==
    (StandardEntry /\ DeclaredStandard(bmrequesttype) /\ brequest = 5) =>
        LET accepted == /\ DirectionBit(bmrequesttype) = 0
                        /\ RecipientBits(bmrequesttype) = 0
                        /\ windex = 0
                        /\ wlength = 0
                        /\ wvalue <= 127
        IN  /\ ret.ok <=> accepted
            /\ ret.ok =>
                /\ ret.val = FromStandard(
                       [variant |-> "SetAddress",
                        address |-> IF wvalue = 0 THEN None ELSE Some(wvalue)])
                /\ wvalue # 0 => wvalue \in 1 .. 127

\* the largest address, 127, is accepted
C8_Witness ==
    /\ pc = "Request::parse"
    /\ Inputs = <<0, 5, 127, 0, 0>>
    /\ ret = Ok(Standard([variant |-> "SetAddress", address |-> Some(127)]))

(***************************************************************************)
(* C9: a Standard-typed SET_CONFIGURATION (0x09) packet is accepted        *)
(* exactly when the direction is HostToDevice, the recipient is Device,    *)
(* wIndex = 0, wLength = 0 and the high byte of wValue is 0; the result is *)
(* SetConfiguration with value None exactly when the low byte of wValue is *)
(* 0 and Some(low byte) otherwise.                                         *)
(***************************************************************************)
C9_SetConfiguration ==
    (StandardEntry /\ DeclaredStandard(bmrequesttype) /\ brequest = 9) =>
        LET accepted == /\ DirectionBit(bmrequesttype) = 0
                        /\ RecipientBits(bmrequesttype) = 0
                        /\ windex = 0
                        /\ wlength = 0
                        /\ HighByte(wvalue) = 0
        IN  /\ ret.ok <=> accepted
            /\ ret.ok =>
                ret.val = FromStandard(
                    [variant |-> "SetConfiguration",
                     value |-> IF LowByte(wvalue) = 0 THEN None
                               ELSE Some(LowByte(wvalue))])

\* the largest configuration value, 255, is accepted
C9_Witness ==
    /\ pc = "Request::parse"
    /\ Inputs = <<0, 9, 255, 0, 0>>
    /\ ret = Ok(Standard([variant |-> "SetConfiguration", value |-> Some(255)]))

(***************************************************************************)
(* C10: for a packet of declared type Standard or Class with bRequest = 6, *)
(* direction DeviceToHost and recipient Interface, Request::parse returns  *)
(* a Hid GetDescriptor request exactly when the high byte of wValue is     *)
(* 0x22 (Report) and the high byte of wIndex is 0, carrying interface =    *)
(* low byte of wIndex, Report { index = low byte of wValue } and length =  *)
(* wLength; with any other type code in the high byte of wValue, the codes *)
(* 1, 2 and 3 of the Standard grammar included, the packet is rejected.    *)
(***************************************************************************)
C10_HidGetDescriptor ==
    (pc = "Request::parse"
        /\ (DeclaredStandard(bmrequesttype) \/ DeclaredClass(bmrequesttype))
        /\ DirectionBit(bmrequesttype) = 1 /\ RecipientBits(bmrequesttype) = 1
        /\ brequest = 6) =>
        /\ ret.ok <=> (HighByte(wvalue) = 34 /\ HighByte(windex) = 0)
        /\ ret.ok =>
              ret.val = Hid([interface |-> LowByte(windex),
                             kind |-> [variant |-> "GetDescriptor",
                                       length |-> wlength,
                                       descriptor |-> [variant |-> "Report",
                                                       index |-> LowByte(wvalue)]]])
        /\ HighByte(wvalue) # 34 => ret = Err

\* parse(129, 6, 8704, 2, 64): a Standard-typed packet answered by the HID grammar
C10_Witness ==
    /\ pc = "Request::parse"
    /\ Inputs = <<129, 6, 8704, 2, 64>>
    /\ ret = Ok(Hid([interface |-> 2,
                     kind |-> [variant |-> "GetDescriptor",
                               length |-> 64,
                               descriptor |-> [variant |-> "Report", index |-> 0]]]))

\* the value an entry point returns for an ACM request r: Request::parse wraps
\* it in Request::Acm, acm::Request::parse returns it as it is
FromAcm(r) == IF pc = "Request::parse" THEN Acm(r) ELSE r

AcmEntry == pc \in {"Request::parse", "acm::Request::parse"}

(***************************************************************************)
(* C11: for a Class-typed, HostToDevice, Interface-recipient               *)
(* SET_CONTROL_LINE_STATE (0x22) packet with wLength = 0 the ACM grammar   *)
(* accepts exactly when the high byte of wIndex is 0 and no bit of wValue  *)
(* above bit 1 is set; then dtr is bit 0 of wValue, rts is bit 1 of wValue *)
(* and interface is the low byte of wIndex.  A wValue with a bit 2..15 set *)
(* is rejected, never masked.                                              *)
(***************************************************************************)
C11_SetControlLineState ==
    (AcmEntry /\ DeclaredClass(bmrequesttype)
        /\ DirectionBit(bmrequesttype) = 0 /\ RecipientBits(bmrequesttype) = 1
        /\ brequest = 34 /\ wlength = 0) =>
        /\ ret.ok <=> (HighByte(windex) = 0 /\ wvalue \div 4 = 0)
        /\ ret.ok =>
              ret.val = FromAcm([interface |-> LowByte(windex),
                                 kind |-> [variant |-> "SetControlLineState",
                                           dtr |-> wvalue % 2 = 1,
                                           rts |-> (wvalue \div 2) % 2 = 1]])
        /\ wvalue \div 4 # 0 => ret = Err

\* wValue = 2 on interface 255: rts set, dtr clear
C11_Witness ==
    /\ pc = "acm::Request::parse"
    /\ Inputs = <<33, 34, 2, 255, 0>>
    /\ ret = Ok([interface |-> 255,
                 kind |-> [variant |-> "SetControlLineState",
                           dtr |-> FALSE, rts |-> TRUE]])

\* an optional nonzero byte, as NonZeroU8::new would return it
OptionalByte(b) == IF b = 0 THEN None ELSE Some(b)

(***************************************************************************)
(* C12: for a HostToDevice, Interface-recipient SET_IDLE (10) packet with  *)
(* wLength = 0 the HID grammar accepts for every wValue provided the high  *)
(* byte of wIndex is 0; report_id is None exactly when the low byte of     *)
(* wValue is 0 and Some(low byte) otherwise, duration is None exactly when *)
(* the high byte of wValue is 0 and Some(high byte) otherwise.  A zero     *)
(* byte never rejects and the two fields are not swapped.                  *)
(***************************************************************************)
C12_SetIdle ==
    (pc = "Request::parse" /\ Decodes(bmrequesttype) /\ KindBits(bmrequesttype) \in {0, 1}
        /\ DirectionBit(bmrequesttype) = 0 /\ RecipientBits(bmrequesttype) = 1
        /\ brequest = 10 /\ wlength = 0) =>
        /\ HidGrammar.ok <=> HighByte(windex) = 0
        /\ HighByte(windex) = 0 =>
              /\ HidGrammar.val.interface = LowByte(windex)
              /\ HidGrammar.val.kind.variant = "SetIdle"
              /\ HidGrammar.val.kind.report_id = OptionalByte(LowByte(wvalue))
              /\ HidGrammar.val.kind.duration = OptionalByte(HighByte(wvalue))
        /\ DeclaredClass(bmrequesttype) =>
              ret = IF HighByte(windex) = 0 THEN Ok(Hid(HidGrammar.val)) ELSE Err

\* wValue = 0x0200: duration 2, no report id, on a Class-typed packet
C12_Witness ==
    /\ pc = "Request::parse"
    /\ Inputs = <<33, 10, 512, 1, 0>>
    /\ ret = Ok(Hid([interface |-> 1,
                     kind |-> [variant |-> "SetIdle",
                               duration |-> Some(2), report_id |-> None]]))

(***************************************************************************)
(* C14: a Standard-typed SET_INTERFACE (11) packet is accepted exactly     *)
(* when direction is HostToDevice, recipient is Interface, wLength = 0,    *)
(* the high byte of wIndex is 0 and the high byte of wValue is 0; then     *)
(* interface is the low byte of wIndex and alternate the low byte of       *)
(* wValue.  A wValue above 255 is rejected even with a valid wIndex, and   *)
(* the other way round.                                                    *)
(***************************************************************************)
C14_SetInterface ==
    (StandardEntry /\ DeclaredStandard(bmrequesttype) /\ brequest = 11) =>
        /\ ret.ok <=> /\ DirectionBit(bmrequesttype) = 0
                      /\ RecipientBits(bmrequesttype) = 1
                      /\ wlength = 0
                      /\ HighByte(windex) = 0
                      /\ HighByte(wvalue) = 0
        /\ ret.ok => ret.val = FromStandard([variant |-> "SetInterface",
                                             interface |-> LowByte(windex),
                                             alternate |-> LowByte(wvalue)])

\* alternate setting 255 of interface 2
C14_Witness ==
    /\ pc = "StandardRequest::parse"
    /\ Inputs = <<1, 11, 255, 2, 0>>
    /\ ret = Ok([variant |-> "SetInterface", interface |-> 2, alternate |-> 255])

\* the Standard request an entry point returned
ReturnedStandard == ret.ok /\ (pc = "Request::parse" => ret.val.variant = "Standard")
Returned == IF pc = "Request::parse" THEN ret.val.request ELSE ret.val

\* wIndex read as an endpoint address
EndpointNibble(w) == LowByte(w) \div 16
DecodesAsEndpoint(w) == HighByte(w) = 0 /\ EndpointNibble(w) \in {0, 8}
DecodedEndpoint(w) ==
    [direction |-> IF EndpointNibble(w) = 0 THEN "Out" ELSE "In", number |-> w % 16]

(***************************************************************************)
(* C13: a HostToDevice CLEAR_FEATURE (1) or SET_FEATURE (3) parses only if *)
(* wLength = 0 and the recipient is Device or Endpoint.  DeviceRemoteWakeup*)
(* is produced only for wValue = DEVICE_REMOTE_WAKEUP, recipient Device and*)
(* wIndex = 0; EndpointHalt only for wValue = ENDPOINT_HALT, recipient     *)
(* Endpoint and a wIndex that decodes as an endpoint, and it carries that  *)
(* endpoint.  A selector paired with the wrong recipient is rejected.      *)
(***************************************************************************)
C13_FeatureRecipients ==
    (StandardEntry /\ DeclaredStandard(bmrequesttype) /\ brequest \in {1, 3}
        /\ DirectionBit(bmrequesttype) = 0) =>
        /\ ret.ok => /\ wlength = 0
                     /\ RecipientBits(bmrequesttype) \in {0, 2}
                     /\ ReturnedStandard
                     /\ Returned.variant = (IF brequest = 1 THEN "ClearFeature"
                                                            ELSE "SetFeature")
        /\ (ret.ok /\ Returned.feature.variant = "DeviceRemoteWakeup") =>
              wvalue = 1 /\ RecipientBits(bmrequesttype) = 0 /\ windex = 0
        /\ (ret.ok /\ Returned.feature.variant = "EndpointHalt") =>
              /\ wvalue = 0 /\ RecipientBits(bmrequesttype) = 2
              /\ DecodesAsEndpoint(windex)
              /\ Returned.feature.endpoint = DecodedEndpoint(windex)
        /\ (wvalue = 1 /\ RecipientBits(bmrequesttype) # 0) => ret = Err
        /\ (wvalue = 0 /\ RecipientBits(bmrequesttype) # 2) => ret = Err
        /\ (wvalue = 1 /\ RecipientBits(bmrequesttype) = 0 /\ windex = 0 /\ wlength = 0)
              => ret.ok /\ Returned.feature.variant = "DeviceRemoteWakeup"
        /\ (wvalue = 0 /\ RecipientBits(bmrequesttype) = 2 /\ DecodesAsEndpoint(windex)
              /\ wlength = 0) => ret.ok /\ Returned.feature.variant = "EndpointHalt"

\* CLEAR_FEATURE(ENDPOINT_HALT) on endpoint 15 IN
C13_Witness ==
    /\ pc = "StandardRequest::parse"
    /\ Inputs = <<2, 1, 0, 143, 0>>
    /\ ret = Ok([variant |-> "ClearFeature",
                 feature |-> [variant |-> "EndpointHalt",
                              endpoint |-> [direction |-> "In", number |-> 15]]])

\* the test selectors of Test, by code
TestOfCode(h) ==
    CASE h = 1 -> "J" [] h = 2 -> "K" [] h = 3 -> "SE0_NAK"
      [] h = 4 -> "Packet" [] h = 5 -> "ForceEnable"

(***************************************************************************)
(* C18: a TestMode feature is produced only by a HostToDevice SET_FEATURE  *)
(* (3) with wLength = 0, wValue = TEST_MODE, recipient Device, low byte of *)
(* wIndex 0 and high byte of wIndex in 1..5 (J, K, SE0_NAK, Packet,        *)
(* ForceEnable in that order); a high byte of 0 or above 5, or a nonzero   *)
(* low byte, is rejected.  CLEAR_FEATURE with the TEST_MODE selector is    *)
(* rejected for every recipient and wIndex.                                *)
(***************************************************************************)
C18_TestMode ==
    (StandardEntry /\ DeclaredStandard(bmrequesttype)) =>
        /\ (ReturnedStandard /\ Returned.variant \in {"ClearFeature", "SetFeature"}
              /\ Returned.feature.variant = "TestMode") =>
              /\ brequest = 3 /\ DirectionBit(bmrequesttype) = 0 /\ wlength = 0
              /\ wvalue = 2 /\ RecipientBits(bmrequesttype) = 0
              /\ LowByte(windex) = 0 /\ HighByte(windex) \in 1 .. 5
              /\ Returned = [variant |-> "SetFeature",
                             feature |-> [variant |-> "TestMode",
                                          test |-> TestOfCode(HighByte(windex))]]
        /\ (brequest = 3 /\ DirectionBit(bmrequesttype) = 0 /\ wlength = 0
              /\ wvalue = 2 /\ RecipientBits(bmrequesttype) = 0) =>
              /\ ret.ok <=> (LowByte(windex) = 0 /\ HighByte(windex) \in 1 .. 5)
              /\ ret.ok => Returned.feature.variant = "TestMode"
        /\ (brequest = 1 /\ wvalue = 2) => ret = Err

\* SET_FEATURE(TEST_MODE) selecting Test_Packet
C18_Witness ==
    /\ pc = "Request::parse"
    /\ Inputs = <<0, 3, 2, 1024, 0>>
    /\ ret = Ok(Standard([variant |-> "SetFeature",
                          feature |-> [variant |-> "TestMode", test |-> "Packet"]]))

(***************************************************************************)
(* C20: a Standard-typed GET_STATUS (0) packet is accepted exactly when    *)
(* direction is DeviceToHost, wValue = 0, wLength = 2 and either recipient *)
(* is Device with wIndex = 0 (GetStatus::Device), or recipient is Interface*)
(* with the upper byte of wIndex 0 (Interface(low byte)), or recipient is  *)
(* Endpoint with wIndex decoding as an endpoint (Endpoint(decoded)).       *)
(* Recipient Other is rejected, and so is Device with a nonzero wIndex.    *)
(***************************************************************************)
C20_GetStatus ==
    (StandardEntry /\ DeclaredStandard(bmrequesttype) /\ brequest = 0) =>
        LET recipient == RecipientBits(bmrequesttype)
        IN  /\ ret.ok <=>
                  /\ DirectionBit(bmrequesttype) = 1 /\ wvalue = 0 /\ wlength = 2
                  /\ \/ recipient = 0 /\ windex = 0
                     \/ recipient = 1 /\ HighByte(windex) = 0
                     \/ recipient = 2 /\ DecodesAsEndpoint(windex)
            /\ ret.ok =>
                  ret.val = FromStandard(
                      [variant |-> "GetStatus",
                       status |-> CASE recipient = 0 -> [variant |-> "Device"]
                                    [] recipient = 1 -> [variant |-> "Interface",
                                                         interface |-> LowByte(windex)]
                                    [] recipient = 2 -> [variant |-> "Endpoint",
                                                         endpoint |-> DecodedEndpoint(windex)]])
            /\ recipient = 3 => ret = Err
            /\ (recipient = 0 /\ windex # 0) => ret = Err

\* GET_STATUS of endpoint 1 IN
C20_Witness ==
    /\ pc = "StandardRequest::parse"
    /\ Inputs = <<130, 0, 0, 129, 2>>
    /\ ret = Ok([variant |-> "GetStatus",
                 status |-> [variant |-> "Endpoint",
                             endpoint |-> [direction |-> "In", number |-> 1]]])

\* an endpoint or an interface number of a result, against the wIndex it came from
EndpointChecked(e) ==
    e.number \in 0 .. 15 /\ HighByte(windex) = 0 /\ e = DecodedEndpoint(windex)
InterfaceChecked(i) == HighByte(windex) = 0 /\ i = windex

(***************************************************************************)
(* C15: in every value Request::parse returns as Ok, a SetAddress address  *)
(* is None or in 1..127; every Endpoint carried by ClearFeature,           *)
(* SetFeature, GetStatus or SynchFrame has a number in 0..15 and was       *)
(* decoded from a wIndex with upper byte 0; every interface number         *)
(* (GetInterface, SetInterface, GetStatus::Interface, Acm, Hid) equals a   *)
(* wIndex whose upper byte is 0; every TestMode selector is one of the     *)
(* five enumerated values.                                                 *)
(***************************************************************************)
C15_ParsedFieldsInRange ==
    (pc = "Request::parse" /\ ret.ok) =>
        LET r == ret.val.request
        IN  /\ ret.val.variant \in {"Acm", "Hid"} => InterfaceChecked(r.interface)
            /\ ret.val.variant = "Standard" =>
                  /\ r.variant = "SetAddress" =>
                        (r.address.some => r.address.v \in 1 .. 127)
                  /\ r.variant \in {"ClearFeature", "SetFeature"} =>
                        /\ r.feature.variant = "EndpointHalt" =>
                              EndpointChecked(r.feature.endpoint)
                        /\ r.feature.variant = "TestMode" =>
                              r.feature.test \in {"J", "K", "SE0_NAK", "Packet",
                                                  "ForceEnable"}
                  /\ r.variant = "GetStatus" =>
                        /\ r.status.variant = "Endpoint" =>
                              EndpointChecked(r.status.endpoint)
                        /\ r.status.variant = "Interface" =>
                              InterfaceChecked(r.status.interface)
                  /\ r.variant = "SynchFrame" => EndpointChecked(r.endpoint)
                  /\ r.variant \in {"GetInterface", "SetInterface"} =>
                        InterfaceChecked(r.interface)

\* the largest interface number
C15_Witness ==
    /\ pc = "Request::parse"
    /\ Inputs = <<129, 10, 0, 255, 1>>
    /\ ret = Ok(Standard([variant |-> "GetInterface", interface |-> 255]))

\* the variant and the direction bit each request code of the Standard grammar names
VariantOfCode(c) ==
    CASE c = 0 -> "GetStatus" [] c = 1 -> "ClearFeature" [] c = 3 -> "SetFeature"
      [] c = 5 -> "SetAddress" [] c = 6 -> "GetDescriptor" [] c = 7 -> "SetDescriptor"
      [] c = 8 -> "GetConfiguration" [] c = 9 -> "SetConfiguration"
      [] c = 10 -> "GetInterface" [] c = 11 -> "SetInterface" [] c = 12 -> "SynchFrame"
DirectionOfCode(c) == IF c \in {0, 6, 8, 10, 12} THEN 1 ELSE 0

\* the recipient, wValue, wIndex and wLength constraints of the rule of code c
RuleConstraints(c) ==
    LET recipient == RecipientBits(bmrequesttype)
        type == HighByte(wvalue)
        index == LowByte(wvalue)
        wakeup == wvalue = 1 /\ recipient = 0 /\ windex = 0
        halt == wvalue = 0 /\ recipient = 2 /\ DecodesAsEndpoint(windex)
    IN  CASE c = 0 -> /\ wvalue = 0 /\ wlength = 2
                      /\ \/ recipient = 0 /\ windex = 0
                         \/ recipient = 1 /\ HighByte(windex) = 0
                         \/ recipient = 2 /\ DecodesAsEndpoint(windex)
          [] c = 1 -> wlength = 0 /\ (wakeup \/ halt)
          [] c = 3 -> /\ wlength = 0
                      /\ \/ wakeup
                         \/ halt
                         \/ /\ wvalue = 2 /\ recipient = 0
                            /\ LowByte(windex) = 0 /\ HighByte(windex) \in 1 .. 5
          [] c = 5 -> recipient = 0 /\ windex = 0 /\ wlength = 0 /\ wvalue <= 127
          [] c = 6 -> /\ recipient = 0
                      /\ \/ type \in {1, 6} /\ index = 0 /\ windex = 0
                         \/ type \in {2, 7} /\ windex = 0
                         \/ type = 3
          [] c = 7 -> /\ recipient = 0
                      /\ \/ type = 1 /\ index = 0 /\ windex = 0
                         \/ type = 2 /\ windex = 0
                         \/ type = 3
          [] c = 8 -> recipient = 0 /\ wvalue = 0 /\ windex = 0 /\ wlength = 1
          [] c = 9 -> recipient = 0 /\ windex = 0 /\ wlength = 0 /\ HighByte(wvalue) = 0
          [] c = 10 -> recipient = 1 /\ wvalue = 0 /\ wlength = 1 /\ HighByte(windex) = 0
          [] c = 11 -> /\ recipient = 1 /\ wlength = 0
                       /\ HighByte(windex) = 0 /\ HighByte(wvalue) = 0
          [] c = 12 -> /\ recipient = 2 /\ wvalue = 0 /\ wlength = 2
                       /\ DecodesAsEndpoint(windex)

(***************************************************************************)
(* C19: in the Standard grammar the rule is selected by (bRequest,         *)
(* direction) alone and never falls through to another rule: every         *)
(* accepted packet yields the variant its bRequest code names (GetStatus 0,*)
(* ClearFeature 1, SetFeature 3, SetAddress 5, GetDescriptor 6,            *)
(* SetDescriptor 7, GetConfiguration 8, SetConfiguration 9, GetInterface   *)
(* 10, SetInterface 11, SynchFrame 12); GET_* and SYNCH_FRAME occur only   *)
(* with DeviceToHost, SET_* and CLEAR_FEATURE only with HostToDevice; and a*)
(* packet whose (bRequest, direction) selects a rule but violates one of   *)
(* the rule's recipient, wValue, wIndex or wLength constraints is rejected.*)
(***************************************************************************)
C19_RuleSelection ==
    (pc = "StandardRequest::parse" /\ DeclaredStandard(bmrequesttype)) =>
        LET selected == /\ brequest \in {0, 1, 3, 5, 6, 7, 8, 9, 10, 11, 12}
                        /\ DirectionBit(bmrequesttype) = DirectionOfCode(brequest)
        IN  /\ ret.ok => /\ selected
                         /\ ret.val.variant = VariantOfCode(brequest)
            /\ (selected /\ ~RuleConstraints(brequest)) => ret = Err
            /\ (selected /\ RuleConstraints(brequest)) => ret.ok

\* a SYNCH_FRAME on endpoint 15 IN rejected for its wLength alone
C19_Witness ==
    /\ pc = "StandardRequest::parse"
    /\ Inputs = <<130, 12, 0, 143, 1>>
    /\ StandardRequest_parse(130, 12, 0, 143, 2).ok
    /\ ret = Err

\* the GET_DESCRIPTOR packet (bRequest 6, DeviceToHost, recipient Device) with
\* the wValue, wIndex and wLength of the current packet
GetDescriptorTwin == StandardRequest_parse(128, 6, wvalue, windex, wlength)

SetDescriptorPacket ==
    /\ StandardEntry /\ DeclaredStandard(bmrequesttype) /\ brequest = 7
    /\ DirectionBit(bmrequesttype) = 0 /\ RecipientBits(bmrequesttype) = 0

(***************************************************************************)
(* C16 as stated: SET_DESCRIPTOR applies the descriptor-type rules of      *)
(* GET_DESCRIPTOR: a Standard-typed SET_DESCRIPTOR (7, HostToDevice,       *)
(* recipient Device) is accepted exactly when the GET_DESCRIPTOR (6,       *)
(* DeviceToHost, recipient Device) with the same wValue and wIndex is      *)
(* accepted, DeviceQualifier and OtherSpeedConfiguration included.         *)
(***************************************************************************)
C16_Original == SetDescriptorPacket => (ret.ok <=> GetDescriptorTwin.ok)

(***************************************************************************)
(* C16: SET_DESCRIPTOR applies the rules of GET_DESCRIPTOR to the types    *)
(* Device, Configuration and String only: a Standard-typed SET_DESCRIPTOR  *)
(* (7, HostToDevice, recipient Device) is accepted exactly when the        *)
(* GET_DESCRIPTOR with the same wValue and wIndex is accepted and the      *)
(* descriptor type, the high byte of wValue, is 1, 2 or 3; it then carries *)
(* the descriptor GET_DESCRIPTOR would carry.  DeviceQualifier (6) and     *)
(* OtherSpeedConfiguration (7) are rejected by SET_DESCRIPTOR.             *)
(***************************************************************************)
C16_SetDescriptorTypes ==
    SetDescriptorPacket =>
        /\ ret.ok <=> (GetDescriptorTwin.ok /\ HighByte(wvalue) \in {1, 2, 3})
        /\ ret.ok => ret.val = FromStandard([variant |-> "SetDescriptor",
                                             descriptor |-> GetDescriptorTwin.val.descriptor,
                                             length |-> wlength])
        /\ HighByte(wvalue) \in {6, 7} => ret = Err

\* SET_DESCRIPTOR(DeviceQualifier, index 0, wIndex 0) is rejected although its
\* GET_DESCRIPTOR twin is accepted
C16_Witness ==
    /\ pc = "StandardRequest::parse"
    /\ Inputs = <<0, 7, 1536, 0, 18>>
    /\ GetDescriptorTwin = Ok([variant |-> "GetDescriptor",
                               descriptor |-> [variant |-> "DeviceQualifier"],
                               length |-> 18])
    /\ ret = Err

\* the fields of the wire representation, read bit by bit
PacketSizeWord == ret[5] + 256 * ret[6]
TransferTypeCode(ty) ==
    CASE ty.variant = "Control" -> 0 [] ty.variant = "Isochronous" -> 1
      [] ty.variant = "Bulk" -> 2 [] ty.variant = "Interrupt" -> 3
TransactionsCode(t) == CASE t = "_1" -> 0 [] t = "_2" -> 1 [] t = "_3" -> 2

(***************************************************************************)
(* C17: for every endpoint Descriptor, bytes() returns 7 bytes: byte0 = 7, *)
(* byte1 = 5, byte2 = the endpoint address (direction in bit 7, number in  *)
(* bits 3-0, bits 6-4 zero), byte3 = the attributes (bits 1-0 the transfer *)
(* type: Control 00, Isochronous 01, Bulk 10, Interrupt 11; bits 3-2 the   *)
(* sync type and bits 5-4 the usage type, nonzero only for Isochronous;    *)
(* bits 7-6 zero), bytes 4-5 = the little-endian packet-size word (bits    *)
(* 10-0 max_packet_size mod 2^11, bits 12-11 the transactions code for     *)
(* Interrupt and Isochronous and zero for Bulk and Control, bits 15-13     *)
(* zero), byte6 = bInterval.                                               *)
(***************************************************************************)
C17_EndpointDescriptorBytes ==
    pc = "Descriptor::bytes" =>
        LET iso == self.ty.variant = "Isochronous"
            periodic == self.ty.variant \in {"Interrupt", "Isochronous"}
        IN  /\ DOMAIN ret = 1 .. 7
            /\ ret[1] = 7
            /\ ret[2] = 5
            /\ ret[3] \div 128 = (IF self.bEndpointAddress.direction = "In" THEN 1 ELSE 0)
            /\ ret[3] % 16 = self.bEndpointAddress.number % 16
            /\ (ret[3] \div 16) % 8 = 0
            /\ ret[4] % 4 = TransferTypeCode(self.ty)
            /\ (ret[4] \div 4) % 4 =
                  (IF iso
                   THEN CASE self.ty.synchronization_type = "NoSynchronization" -> 0
                          [] self.ty.synchronization_type = "Asynchronous" -> 1
                          [] self.ty.synchronization_type = "Adaptive" -> 2
                          [] self.ty.synchronization_type = "Synchronous" -> 3
                   ELSE 0)
            /\ (ret[4] \div 16) % 4 =
                  (IF iso
                   THEN CASE self.ty.usage_type = "DataEndpoint" -> 0
                          [] self.ty.usage_type = "FeedbackEndpoint" -> 1
                          [] self.ty.usage_type = "ImplicitFeedbackDataEndpoint" -> 2
                   ELSE 0)
            /\ ret[4] \div 64 = 0
            /\ PacketSizeWord % 2048 = self.max_packet_size % 2048
            /\ (PacketSizeWord \div 2048) % 4 =
                  (IF periodic
                   THEN TransactionsCode(self.ty.transactions_per_microframe)
                   ELSE 0)
            /\ PacketSizeWord \div 8192 = 0
            /\ ret[7] = self.bInterval

\* an isochronous IN endpoint whose number and packet size exceed their fields
C17_Witness ==
    /\ pc = "Descriptor::bytes"
    /\ self = [bEndpointAddress |-> [direction |-> "In", number |-> 17],
               ty |-> [variant |-> "Isochronous",
                       synchronization_type |-> "Synchronous",
                       usage_type |-> "ImplicitFeedbackDataEndpoint",
                       transactions_per_microframe |-> "_3"],
               max_packet_size |-> 2049, bInterval |-> 255]
    /\ ret = <<7, 5, 129, 45, 1, 16, 255>>

\* Request::parse with the two grammars of each kind tried in the other order
Request_parse_HidFirst(b, br, wv, wi, wl) ==
    LET rt == bmRequestType_parse(b)
    IN  IF ~rt.ok THEN Err
        ELSE IF rt.val.ty = "Standard"
        THEN OrElse(MapRequest(hid_Request_parse2(rt.val, br, wv, wi, wl), "Hid"),
                    MapRequest(StandardRequest_parse2(rt.val, br, wv, wi, wl), "Standard"))
        ELSE IF rt.val.ty = "Class"
        THEN OrElse(MapRequest(hid_Request_parse2(rt.val, br, wv, wi, wl), "Hid"),
                    MapRequest(acm_Request_parse2(rt.val, br, wv, wi, wl), "Acm"))
        ELSE Err

\* how many of the three grammars accept the decoded fields of the current packet
AcceptingGrammars ==
    (IF StdGrammar.ok THEN 1 ELSE 0) + (IF AcmGrammar.ok THEN 1 ELSE 0)
        + (IF HidGrammar.ok THEN 1 ELSE 0)

(***************************************************************************)
(* C21: the three grammars have pairwise disjoint acceptance sets: for     *)
(* every decoded direction and recipient and every bRequest, wValue,       *)
(* wIndex and wLength at most one of the Standard, the ACM and the HID     *)
(* grammar accepts.  Hence Request::parse returns the same value when the  *)
(* grammars are tried in the other order (HID before Standard for kind     *)
(* Standard, HID before ACM for kind Class).                               *)
(***************************************************************************)
C21_GrammarsDisjoint ==
    pc = "Request::parse" =>
        /\ Decodes(bmrequesttype) => AcceptingGrammars <= 1
        /\ ret = Request_parse_HidFirst(bmrequesttype, brequest, wvalue, windex, wlength)

\* GET_DESCRIPTOR(Report) to an interface on a Standard-typed packet: the request
\* code is shared with the Standard grammar, and only the HID grammar accepts
C21_Witness ==
    /\ pc = "Request::parse"
    /\ Inputs = <<129, 6, 8704, 0, 64>>
    /\ ~StdGrammar.ok /\ ~AcmGrammar.ok /\ HidGrammar.ok
    /\ ret = Ok(Hid([interface |-> 0,
                     kind |-> [variant |-> "GetDescriptor", length |-> 64,
                               descriptor |-> [variant |-> "Report", index |-> 0]]]))

\* b XOR 0b0001_0000
Bit4(b) == (b \div 16) % 2
FlipBit4(b) == IF Bit4(b) = 1 THEN b - 16 ELSE b + 16

(***************************************************************************)
(* C22: bit 4 of the bmRequestType byte has no effect on any result: for   *)
(* every byte b and every bRequest, wValue, wIndex and wLength,            *)
(* Request::parse(b, ...) and Request::parse(b XOR 0b0001_0000, ...)       *)
(* return the same value; a byte with bit 4 set is never rejected on that  *)
(* account.                                                                *)
(***************************************************************************)
C22_Bit4Ignored ==
    pc = "Request::parse" =>
        /\ ret = Request_parse(FlipBit4(bmrequesttype), brequest, wvalue, windex, wlength)
        /\ bmRequestType_parse(bmrequesttype)
              = bmRequestType_parse(FlipBit4(bmrequesttype))
        /\ (Bit4(bmrequesttype) = 1 /\ Decodes(bmrequesttype - 16)) =>
              bmRequestType_parse(bmrequesttype).ok

\* SET_ADDRESS(16) sent with bit 4 of the request-type byte set
C22_Witness ==
    /\ pc = "Request::parse"
    /\ Inputs = <<16, 5, 16, 0, 0>>
    /\ ret = Ok(Standard([variant |-> "SetAddress", address |-> Some(16)]))

\* what each public entry point returns for the current packet
ByRequest == Request_parse(bmrequesttype, brequest, wvalue, windex, wlength)
ByStandardRequest == StandardRequest_parse(bmrequesttype, brequest, wvalue, windex, wlength)
ByAcmRequest == acm_Request_parse(bmrequesttype, brequest, wvalue, windex, wlength)

(***************************************************************************)
(* C23: the public per-grammar entry points agree with the dispatcher: for *)
(* every 5-tuple t, StandardRequest::parse(t) = Ok(r) exactly when         *)
(* Request::parse(t) = Ok(Standard(r)), and acm::Request::parse(t) = Ok(r) *)
(* exactly when Request::parse(t) = Ok(Acm(r)).  StandardRequest::parse    *)
(* rejects every packet whose kind is not Standard and acm::Request::parse *)
(* every packet whose kind is not Class, so Request::parse never returns   *)
(* an Acm result for a Standard-typed packet nor a Standard result for a   *)
(* Class-typed packet.                                                     *)
(***************************************************************************)
C23_EntryPointsAgree ==
    /\ pc = "StandardRequest::parse" =>
          /\ ret.ok <=> (ByRequest.ok /\ ByRequest.val.variant = "Standard")
          /\ ret.ok => ByRequest = Ok(Standard(ret.val))
          /\ ~DeclaredStandard(bmrequesttype) => ret = Err
    /\ pc = "acm::Request::parse" =>
          /\ ret.ok <=> (ByRequest.ok /\ ByRequest.val.variant = "Acm")
          /\ ret.ok => ByRequest = Ok(Acm(ret.val))
          /\ ~DeclaredClass(bmrequesttype) => ret = Err
    /\ (pc = "Request::parse" /\ ret.ok) =>
          /\ ret.val.variant = "Standard" =>
                DeclaredStandard(bmrequesttype) /\ ByStandardRequest = Ok(ret.val.request)
          /\ ret.val.variant = "Acm" =>
                DeclaredClass(bmrequesttype) /\ ByAcmRequest = Ok(ret.val.request)
          /\ ret.val.variant = "Hid" => ~ByStandardRequest.ok /\ ~ByAcmRequest.ok

\* GET_LINE_CODING through the ACM entry point, wrapped in Acm by the dispatcher
C23_Witness ==
    /\ pc = "acm::Request::parse"
    /\ Inputs = <<161, 33, 0, 1, 7>>
    /\ ret = Ok([interface |-> 1, kind |-> [variant |-> "GetLineCoding"]])
    /\ ByRequest = Ok(Acm(ret.val))

=============================================================================
